---- MODULE Spec2Model ----
(***************************************************************************)
(* Model of src/main.py: CSVToMongoDBLoader, the loader that reads the     *)
(* CSV files of a directory, normalises their rows and bulk-inserts them   *)
(* into a MongoDB collection, followed by index creation.                  *)
(*                                                                         *)
(* Python values are records [k, n, s]: k is the kind ("int", "float",     *)
(* "str", "nan", "inf", "ninf", "None", "ts"), n the payload of a number   *)
(* (an int as itself, a float in tenths), s the characters of a string.    *)
(* A row (a dict of df.to_dict('records')) is a function from column       *)
(* names to values.  Strings that the code inspects are tuples of          *)
(* characters.                                                             *)
(***************************************************************************)
EXTENDS Integers, Sequences, FiniteSets, TLC

VARIABLES
    dir,            \* the directory: the listing os.listdir returns, in order
    batch_size,     \* the batch_size argument of load_data_to_mongodb
    pc,             \* position in load_data_to_mongodb
    client,         \* self.client: "None" or "MongoClient"
    collection,     \* self.collection: "None" or "Collection"
    csv_files,      \* read_csv_files: the discovered paths
    dataframes,     \* the list read_csv_files returned
    total_records,  \* the running total
    i,              \* number of dataframes the outer loop has taken
    records,        \* prepare_data_for_mongodb's result for the current dataframe
    js,             \* the values of range(0, len(records), batch_size) still to come
    fld,            \* create_indexes: the index field being examined (1..3)
    index_info,     \* create_indexes: the fields indexed so far
    result,         \* what load_data_to_mongodb returns: "none", "True", "False", "raised"
    ops,            \* log of the calls made to the file system and the store
    last            \* the insert_many call of the latest loop step: outcome, batch size,
                    \* write errors, total before it (NoCall after any other step)

vars == <<dir, batch_size, pc, client, collection, csv_files, dataframes, total_records, i,
          records, js, fld, index_info, result, ops, last>>

(***************************************************************************)
(* Bounds of the model.                                                    *)
(***************************************************************************)
MaxFiles == 2
MaxRows == 3
MaxBatch == 2
MaxPrepRows == 2

(***************************************************************************)
(* Python values.                                                          *)
(***************************************************************************)
PyInt(n) == [k |-> "int", n |-> n, s |-> <<>>]
PyFloat(tenths) == [k |-> "float", n |-> tenths, s |-> <<>>]
PyStr(chars) == [k |-> "str", n |-> 0, s |-> chars]
PyNaN == [k |-> "nan", n |-> 0, s |-> <<>>]
PyInf == [k |-> "inf", n |-> 0, s |-> <<>>]
PyNegInf == [k |-> "ninf", n |-> 0, s |-> <<>>]
PyNone == [k |-> "None", n |-> 0, s |-> <<>>]
PyTimestamp == [k |-> "ts", n |-> 0, s |-> <<>>]

Returned(v) == [exc |-> "none", val |-> v]
Raised(e) == [exc |-> e, val |-> PyNone]

Digits == <<"0", "1", "2", "3", "4", "5", "6", "7", "8", "9">>
IsDigit(c) == \E d \in 1..10 : Digits[d] = c
DigitValue(c) == (CHOOSE d \in 1..10 : Digits[d] = c) - 1

RECURSIVE DecimalValue(_)
DecimalValue(chars) ==
    IF chars = <<>> THEN 0
    ELSE 10 * DecimalValue(SubSeq(chars, 1, Len(chars) - 1))
         + DigitValue(chars[Len(chars)])

AllDigits(chars) == chars /= <<>> /\ \A p \in 1..Len(chars) : IsDigit(chars[p])

\* float(str): digits, or digits with one fractional digit; "inf" and "nan"
\* are accepted by Python's float(); anything else is a ValueError.
ParseFloat(chars) ==
    IF chars = <<"i", "n", "f">> THEN Returned(PyInf)
    ELSE IF chars = <<"n", "a", "n">> THEN Returned(PyNaN)
    ELSE IF AllDigits(chars) THEN Returned(PyFloat(10 * DecimalValue(chars)))
    ELSE IF /\ Len(chars) >= 3
            /\ chars[Len(chars) - 1] = "."
            /\ IsDigit(chars[Len(chars)])
            /\ AllDigits(SubSeq(chars, 1, Len(chars) - 2))
         THEN Returned(PyFloat(10 * DecimalValue(SubSeq(chars, 1, Len(chars) - 2))
                               + DigitValue(chars[Len(chars)])))
    ELSE Raised("ValueError")

\* float(x)
FloatOf(v) ==
    CASE v.k = "int" -> Returned(PyFloat(10 * v.n))
      [] v.k \in {"float", "nan", "inf", "ninf"} -> Returned(v)
      [] v.k = "str" -> ParseFloat(v.s)
      [] OTHER -> Raised("TypeError")

Truncate(tenths) == IF tenths >= 0 THEN tenths \div 10 ELSE -((-tenths) \div 10)

\* int(x)
IntOf(v) ==
    CASE v.k = "int" -> Returned(v)
      [] v.k = "float" -> Returned(PyInt(Truncate(v.n)))
      [] v.k \in {"inf", "ninf"} -> Raised("OverflowError")
      [] v.k = "nan" -> Raised("ValueError")
      [] v.k = "str" ->
            IF AllDigits(v.s) THEN Returned(PyInt(DecimalValue(v.s)))
            ELSE Raised("ValueError")
      [] OTHER -> Raised("TypeError")

\* pd.notna(x)
NotNa(v) == v.k \notin {"nan", "None"}

numeric_fields ==
    {"Open", "High", "Low", "Close", "Volume", "Quote asset volume",
     "Number of trades", "Taker buy base asset volume",
     "Taker buy quote asset volume", "Ignore"}

\* the exceptions the two try blocks of prepare_data_for_mongodb handle
FloatHandled == {"ValueError", "TypeError"}
IntHandled == {"ValueError", "TypeError"}

\* one pass of the numeric_fields loop: the field's new value, or the
\* exception that escapes
CoerceFloat(v) ==
    LET r == FloatOf(v) IN
    IF r.exc = "none" THEN r
    ELSE IF r.exc \in FloatHandled THEN Returned(PyNone)
    ELSE r

\* the numeric_fields loop of prepare_data_for_mongodb over one record
FloatFields(record) ==
    LET todo == {f \in DOMAIN record : f \in numeric_fields /\ NotNa(record[f])}
        coerced == [f \in todo |-> CoerceFloat(record[f])]
    IN  IF \E f \in todo : coerced[f].exc /= "none"
        THEN Raised(coerced[CHOOSE f \in todo : coerced[f].exc /= "none"].exc)
        ELSE Returned([f \in DOMAIN record |->
                        IF f \in todo THEN coerced[f].val ELSE record[f]])

\* the 'Number of trades' block of prepare_data_for_mongodb over one record:
\* the record, or the exception that escapes
IntTrades(record) ==
    IF "Number of trades" \in DOMAIN record /\ NotNa(record["Number of trades"])
    THEN LET r == IntOf(record["Number of trades"]) IN
         IF r.exc = "none"
         THEN Returned([record EXCEPT !["Number of trades"] = r.val])
         ELSE IF r.exc \in IntHandled
         THEN Returned([record EXCEPT !["Number of trades"] = PyNone])
         ELSE Raised(r.exc)
    ELSE Returned(record)

\* the body of the loop over records
PrepareRecord(record) ==
    LET floats == FloatFields(record) IN
    IF floats.exc = "none" THEN IntTrades(floats.val) ELSE Raised(floats.exc)

\* prepare_data_for_mongodb: the records, or the exception of the first record
\* that raises
RECURSIVE PrepareFrom(_, _, _)
PrepareFrom(rows, p, done) ==
    IF p > Len(rows) THEN [exc |-> "none", records |-> done]
    ELSE LET r == PrepareRecord(rows[p]) IN
         IF r.exc = "none" THEN PrepareFrom(rows, p + 1, Append(done, r.val))
         ELSE [exc |-> r.exc, records |-> done]

prepare_data_for_mongodb(df) == PrepareFrom(df, 1, <<>>)

(***************************************************************************)
(* The directory and its files.                                            *)
(***************************************************************************)
Stems == <<"a", "b", "c", "d", "e">>
CsvSuffix == <<".", "c", "s", "v">>
OtherSuffix == <<".", "t", "x", "t">>

\* str.endswith
EndsWith(name, suffix) ==
    /\ Len(name) >= Len(suffix)
    /\ SubSeq(name, Len(name) - Len(suffix) + 1, Len(name)) = suffix

\* one parsed row of a file: a float column, a text column and the count
\* column, whose value is infinite in a file's last row when hasInf
FileRow(p, n, hasInf) ==
    ("Open" :> PyFloat(10 * p + 5))
    @@ ("Volume" :> PyStr(IF p = 1 THEN <<"a", "b", "c">> ELSE <<"1", "2">>))
    @@ ("Number of trades" :> IF hasInf /\ p = n THEN PyInf ELSE PyFloat(10 * p))

FileKinds ==
    {[suffix |-> OtherSuffix, parses |-> TRUE, rows |-> <<>>],
     [suffix |-> CsvSuffix, parses |-> FALSE, rows |-> <<>>]}
    \cup {[suffix |-> CsvSuffix, parses |-> TRUE,
           rows |-> [p \in 1..n |-> FileRow(p, n, hasInf)]] :
             n \in 0..MaxRows, hasInf \in BOOLEAN}

\* a listing: file p is named Stems[p] with its suffix
Directories ==
    UNION {[1..n -> FileKinds] : n \in 0..MaxFiles}

FileName(d, p) == <<Stems[p]>> \o d[p].suffix

BatchSizes == (-1)..MaxBatch

(***************************************************************************)
(* read_csv_files.                                                         *)
(***************************************************************************)
\* the listing loop: the names that end in .csv, in listing order
RECURSIVE Discover(_, _)
Discover(d, p) ==
    IF p > Len(d) THEN <<>>
    ELSE IF EndsWith(FileName(d, p), CsvSuffix)
         THEN <<p>> \o Discover(d, p + 1)
         ELSE Discover(d, p + 1)

\* pd.read_csv and the two added columns
ReadFrame(d, p) ==
    [q \in 1..Len(d[p].rows) |->
        d[p].rows[q] @@ ("source_file" :> PyStr(FileName(d, p)))
                     @@ ("import_timestamp" :> PyTimestamp)]

RECURSIVE ReadAllStopsAtFailure(_, _)
ReadAllStopsAtFailure(d, files) ==
    IF files = <<>> THEN <<>>
    ELSE IF d[Head(files)].parses
         THEN <<ReadFrame(d, Head(files))>> \o ReadAllStopsAtFailure(d, Tail(files))
         ELSE <<>>

\* the reading loop over csv_files: a file that fails to parse is logged and
\* the loop goes on
RECURSIVE ReadAll(_, _)
ReadAll(d, files) ==
    IF files = <<>> THEN <<>>
    ELSE IF d[Head(files)].parses
         THEN <<ReadFrame(d, Head(files))>> \o ReadAll(d, Tail(files))
         ELSE ReadAll(d, Tail(files))

\* read_csv_files when os.listdir succeeds
read_csv_files(d) == ReadAll(d, Discover(d, 1))

\* an entry of the call log: the call, its place (the file read, the dataframe
\* and offset of a batch, the index field) and the batch handed over
Call(op, at, batch) == [op |-> op, at |-> at, batch |-> batch]

ReadOps(files) == [p \in 1..Len(files) |-> Call("read_csv", <<files[p]>>, <<>>)]

(***************************************************************************)
(* Slicing and range.                                                      *)
(***************************************************************************)
Min(a, b) == IF a < b THEN a ELSE b
Max(a, b) == IF a > b THEN a ELSE b

SliceShort(s, lo, hi) ==
    LET clip(x) == IF x < 0 THEN Max(Len(s) + x, 0) ELSE Min(x, Len(s))
    IN  SubSeq(s, clip(lo) + 1, clip(hi - 1))

\* s[lo:hi]
Slice(s, lo, hi) ==
    LET clip(x) == IF x < 0 THEN Max(Len(s) + x, 0) ELSE Min(x, Len(s))
    IN  SubSeq(s, clip(lo) + 1, clip(hi))

\* list(range(start, stop, step)) for step /= 0
RECURSIVE RangeFrom(_, _, _)
RangeFrom(start, stop, step) ==
    IF (step > 0 /\ start >= stop) \/ (step < 0 /\ start <= stop) THEN <<>>
    ELSE <<start>> \o RangeFrom(start + step, stop, step)

(***************************************************************************)
(* The run of load_data_to_mongodb.                                        *)
(***************************************************************************)
NoCall == [op |-> "none", size |-> 0, errors |-> 0, before |-> 0]

Init ==
    /\ dir \in Directories
    /\ batch_size \in BatchSizes
    /\ pc = "connect"
    /\ client = "None"
    /\ collection = "None"
    /\ csv_files = <<>>
    /\ dataframes = <<>>
    /\ total_records = 0
    /\ i = 0
    /\ records = <<>>
    /\ js = <<>>
    /\ fld = 1
    /\ index_info = <<>>
    /\ result = "none"
    /\ ops = <<>>
    /\ last = NoCall

\* connect_to_mongodb and the test of its result: MongoClient(...) and the
\* ping either succeed, raise a ConnectionFailure or raise something else
ConnectOutcomes == {"ok", "ConnectionFailure", "OperationFailure", "ConfigurationError"}

\* the exceptions connect_to_mongodb handles by returning False
ConnectHandled == {"ConnectionFailure"}

connect_to_mongodb ==
    /\ pc = "connect"
    /\ \E outcome \in ConnectOutcomes :
        /\ client' = IF outcome = "ConfigurationError" THEN "None" ELSE "MongoClient"
        /\ collection' = IF outcome = "ok" THEN "Collection" ELSE "None"
        /\ ops' = Append(ops, Call("connect", <<>>, <<>>))
        /\ pc' = IF outcome = "ok" THEN "read" ELSE "done"
        /\ result' = IF outcome = "ok" THEN "none"
                     ELSE IF outcome \in ConnectHandled THEN "False"
                     ELSE "raised"
    /\ last' = NoCall
    /\ UNCHANGED <<dir, batch_size, csv_files, dataframes, total_records, i,
                   records, js, fld, index_info>>

NoDataNever(frames) == FALSE

\* "if not dataframes"
NoData(frames) == frames = <<>>

\* read_csv_files and "if not dataframes: return False"; when os.listdir
\* raises, read_csv_files returns the empty list
ReadCsvFiles ==
    /\ pc = "read"
    /\ \E listed \in BOOLEAN :
        LET found == IF listed THEN Discover(dir, 1) ELSE <<>>
            frames == IF listed THEN read_csv_files(dir) ELSE <<>>
        IN  /\ csv_files' = found
            /\ dataframes' = frames
            /\ ops' = ops \o <<Call("listdir", <<>>, <<>>)>> \o ReadOps(found)
            /\ pc' = IF NoData(frames) THEN "finally" ELSE "for_df"
            /\ result' = IF NoData(frames) THEN "False" ELSE "none"
    /\ last' = NoCall
    /\ UNCHANGED <<dir, batch_size, client, collection, total_records, i, records,
                   js, fld, index_info>>

ShouldIndexWhenLoaded(total) == total > 0

\* whether the code after the loops calls create_indexes
ShouldIndex(total) == TRUE

\* the head of the loop over dataframes: prepare_data_for_mongodb and the
\* range of the batch loop, an exception being caught by "except Exception";
\* after the last dataframe, the call of create_indexes
NextDataFrame ==
    /\ pc = "for_df"
    /\ last' = NoCall
    /\ IF i < Len(dataframes)
       THEN LET prepared == prepare_data_for_mongodb(dataframes[i + 1]) IN
            /\ i' = i + 1
            /\ IF prepared.exc /= "none" \/ batch_size = 0
               THEN /\ pc' = "finally"
                    /\ result' = "False"
                    /\ records' = IF prepared.exc /= "none" THEN records
                                  ELSE prepared.records
                    /\ UNCHANGED js
               ELSE /\ records' = prepared.records
                    /\ js' = RangeFrom(0, Len(prepared.records), batch_size)
                    /\ pc' = IF js' = <<>> THEN "for_df" ELSE "for_batch"
                    /\ UNCHANGED result
            /\ UNCHANGED <<fld, ops>>
       ELSE /\ IF ShouldIndex(total_records)
               THEN /\ pc' = "find"
                    /\ ops' = Append(ops, Call("create_indexes", <<>>, <<>>))
                    /\ UNCHANGED result
               ELSE /\ pc' = "finally"
                    /\ result' = "True"
                    /\ UNCHANGED ops
            /\ fld' = 1
            /\ UNCHANGED <<i, records, js>>
    /\ UNCHANGED <<dir, batch_size, client, collection, csv_files, dataframes,
                   total_records, index_info>>

\* insert_many answers with all documents inserted, with a BulkWriteError of
\* `errors` write errors, or with another exception
InsertOutcomes == {"ok", "BulkWriteError", "OtherError"}

InsertedIgnoresErrors(outcome, batch, errors) ==
    CASE outcome = "ok" -> Len(batch)
      [] outcome = "BulkWriteError" -> Len(batch)
      [] OTHER -> 0

InsertedCountsFailed(outcome, batch, errors) ==
    CASE outcome = "ok" -> Len(batch)
      [] outcome = "BulkWriteError" -> Len(batch) - errors
      [] OTHER -> Len(batch)

\* what the try/except of the batch loop adds to total_records
Inserted(outcome, batch, errors) ==
    CASE outcome = "ok" -> Len(batch)
      [] outcome = "BulkWriteError" -> Len(batch) - errors
      [] OTHER -> 0

\* one pass of the batch loop
InsertBatch ==
    /\ pc = "for_batch"
    /\ js /= <<>>
    /\ LET batch == Slice(records, Head(js), Head(js) + batch_size) IN
       /\ ops' = Append(ops, Call("insert_many", <<i, Head(js)>>, batch))
       /\ \E outcome \in InsertOutcomes, errors \in 0..Len(batch) :
           /\ outcome = "BulkWriteError" \/ errors = 0
           /\ last' = [op |-> outcome, size |-> Len(batch), errors |-> errors,
                       before |-> total_records]
           /\ total_records' = total_records + Inserted(outcome, batch, errors)
           /\ IF outcome = "OtherError"
              THEN /\ pc' = "finally"
                   /\ result' = "False"
                   /\ UNCHANGED js
              ELSE /\ js' = Tail(js)
                   /\ pc' = IF Tail(js) = <<>> THEN "for_df" ELSE "for_batch"
                   /\ UNCHANGED result
    /\ UNCHANGED <<dir, batch_size, client, collection, csv_files, dataframes, i,
                   records, fld, index_info>>

\* create_indexes: the fields it looks for, in order
IndexFields == <<"Open time", "Close time", "source_file">>

EndIndexes(f) == IF f > Len(IndexFields) THEN "finally" ELSE "find"

\* what load_data_to_mongodb returns once create_indexes has returned, also
\* when create_indexes caught an exception
IndexErrorFails(raised) == IF raised THEN "False" ELSE "True"

IndexedResult(raised) == "True"

\* create_indexes, one "next(self.collection.find().limit(1), {})": the
\* sampled document has the field, has not, or the call raises (caught by
\* create_indexes, which returns)
FindOutcomes == {"present", "absent", "raises"}

FindSample ==
    /\ pc = "find"
    /\ ops' = Append(ops, Call("find", <<fld>>, <<>>))
    /\ \E outcome \in FindOutcomes :
        /\ pc' = CASE outcome = "present" -> "create_index"
                   [] outcome = "absent" -> EndIndexes(fld + 1)
                   [] OTHER -> "finally"
        /\ fld' = IF outcome = "absent" THEN fld + 1 ELSE fld
        /\ result' = IF pc' = "finally" THEN IndexedResult(outcome = "raises")
                     ELSE result
    /\ last' = NoCall
    /\ UNCHANGED <<dir, batch_size, client, collection, csv_files, dataframes,
                   total_records, i, records, js, index_info>>

\* create_indexes, one create_index call: it succeeds or raises
CreateIndex ==
    /\ pc = "create_index"
    /\ ops' = Append(ops, Call("create_index", <<fld>>, <<>>))
    /\ \E ok \in BOOLEAN :
        /\ index_info' = IF ok THEN Append(index_info, IndexFields[fld]) ELSE index_info
        /\ pc' = IF ok THEN EndIndexes(fld + 1) ELSE "finally"
        /\ fld' = IF ok THEN fld + 1 ELSE fld
        /\ result' = IF pc' = "finally" THEN IndexedResult(~ok) ELSE result
    /\ last' = NoCall
    /\ UNCHANGED <<dir, batch_size, client, collection, csv_files, dataframes,
                   total_records, i, records, js>>

ShouldCloseOnSuccess(c, res) == c /= "None" /\ res = "True"

\* "if self.client" of disconnect, reached from the finally clause
ShouldClose(c, res) == c /= "None"

\* the finally clause: disconnect
disconnect ==
    /\ pc = "finally"
    /\ ops' = IF ShouldClose(client, result)
              THEN Append(ops, Call("close", <<>>, <<>>))
              ELSE ops
    /\ pc' = "done"
    /\ UNCHANGED <<dir, batch_size, client, collection, csv_files, dataframes,
                   total_records, i, records, js, fld, index_info, result, last>>

Next ==
    \/ connect_to_mongodb
    \/ ReadCsvFiles
    \/ NextDataFrame
    \/ InsertBatch
    \/ FindSample
    \/ CreateIndex
    \/ disconnect

Spec == Init /\ [][Next]_vars

(***************************************************************************)
(* prepare_data_for_mongodb on its own, over a wider range of values.      *)
(***************************************************************************)
FieldValues ==
    {PyInt(7), PyFloat(37), PyFloat(-25), PyNaN, PyInf, PyNegInf, PyNone,
     PyTimestamp, PyStr(<<"a", "b", "c">>), PyStr(<<"1", "2">>),
     PyStr(<<"1", ".", "5">>), PyStr(<<"i", "n", "f">>)}

Absent == [k |-> "absent", n |-> 0, s |-> <<>>]

\* a row with the given Volume and 'Number of trades' (Absent: no such column)
RowOf(volume, trades) ==
    LET cols == {c \in {"Volume", "Number of trades"} :
                    (IF c = "Volume" THEN volume ELSE trades) /= Absent}
    IN  [c \in cols \cup {"source_file"} |->
            CASE c = "Volume" -> volume
              [] c = "Number of trades" -> trades
              [] OTHER -> PyStr(<<"a">> \o CsvSuffix)]

AnyRows == {RowOf(v, t) : v, t \in FieldValues \cup {Absent}}
PlainRows == {RowOf(PyFloat(15), PyInt(3)), RowOf(PyStr(<<"a", "b", "c">>), PyFloat(20))}

\* dataframes of one to MaxPrepRows rows, one of them arbitrary
PrepFrames ==
    UNION {{[q \in 1..n |-> IF q = at THEN any ELSE plain[q]] :
               at \in 1..n, any \in AnyRows, plain \in [1..n -> PlainRows]} :
           n \in 1..MaxPrepRows}

InitPrep ==
    /\ dataframes \in {<<df>> : df \in PrepFrames}
    /\ pc = "prepare"
    /\ dir = <<>>
    /\ batch_size = 1
    /\ client = "None"
    /\ collection = "None"
    /\ csv_files = <<>>
    /\ total_records = 0
    /\ i = 1
    /\ records = <<>>
    /\ js = <<>>
    /\ fld = 1
    /\ index_info = <<>>
    /\ result = "none"
    /\ ops = <<>>
    /\ last = NoCall

\* one call of prepare_data_for_mongodb: it returns the records or raises
PrepareData ==
    /\ pc = "prepare"
    /\ LET prepared == prepare_data_for_mongodb(dataframes[i]) IN
       /\ records' = prepared.records
       /\ result' = IF prepared.exc = "none" THEN "returned" ELSE prepared.exc
    /\ pc' = "prepared"
    /\ UNCHANGED <<dir, batch_size, client, collection, csv_files, dataframes,
                   total_records, i, js, fld, index_info, ops, last>>

NextPrep == PrepareData

SpecPrep == InitPrep /\ [][NextPrep]_vars

(***************************************************************************)
(* Properties.                                                             *)
(***************************************************************************)
Calls(op) == {p \in DOMAIN ops : ops[p].op = op}
IndexCalls == Calls("create_indexes") \cup Calls("find") \cup Calls("create_index")

\* the batches handed to insert_many for dataframe q, concatenated in call order
RECURSIVE SubmittedUpTo(_, _)
SubmittedUpTo(q, p) ==
    IF p = 0 THEN <<>>
    ELSE IF ops[p].op = "insert_many" /\ ops[p].at[1] = q
         THEN SubmittedUpTo(q, p - 1) \o ops[p].batch
         ELSE SubmittedUpTo(q, p - 1)

Submitted(q) == SubmittedUpTo(q, Len(ops))

\* every row of dataframe q was handed to insert_many, once and in order
AllRowsSubmitted(q) ==
    /\ Len(Submitted(q)) = Len(dataframes[q])
    /\ \A r \in 1..Len(dataframes[q]) :
          /\ Submitted(q)[r]["Open"] = dataframes[q][r]["Open"]
          /\ Submitted(q)[r]["source_file"] = dataframes[q][r]["source_file"]

\* C1: in a run in which connect_to_mongodb succeeded, disconnect is called
\* exactly once, as the last call of the run, whatever discovery, parsing,
\* normalisation, insertion or index creation did: before the end of the run
\* nothing is closed and the run is at a position whose step can be taken
\* (every failure leads to the finally clause), at the end the only close is
\* the last call.
C1_DisconnectOnceAndLast ==
    collection /= "None" =>
        /\ pc /= "done" =>
              /\ Calls("close") = {}
              /\ pc \in {"read", "for_df", "for_batch", "find", "create_index",
                          "finally"}
              /\ pc = "for_batch" => js /= <<>>
              /\ pc = "finally" => result \in {"True", "False"} /\ ENABLED disconnect
        /\ pc = "done" => Calls("close") = {Len(ops)} /\ result \in {"True", "False"}

C1_Witness ==
    /\ pc = "done"
    /\ collection /= "None"
    /\ last.op = "OtherError"
    /\ ops[Len(ops)].op = "close"

\* C2: if connecting fails, for any kind of failure, the run returns False
\* and the only call made is the connection attempt.
C2_ConnectFailureReturnsFalse ==
    (pc = "done" /\ collection = "None") =>
        /\ result = "False"
        /\ \A p \in DOMAIN ops : ops[p].op = "connect"

\* C3: a directory that yields no data file (empty, no .csv name, or not
\* listable) makes a connected run return False with nothing inserted, and
\* the store sees only the connection and its close.
C3_NoFilesFailsWithoutStoreWork ==
    (pc = "done" /\ collection /= "None" /\ csv_files = <<>>) =>
        /\ result = "False"
        /\ total_records = 0
        /\ \A p \in DOMAIN ops : ops[p].op \in {"connect", "listdir", "close"}
        /\ Cardinality(Calls("close")) = 1

C3_Witness ==
    /\ pc = "done"
    /\ collection /= "None"
    /\ csv_files = <<>>
    /\ Len(dir) >= 1
    /\ result = "False"

\* C4: an insert_many of a batch of size B adds B to the running total when
\* all documents are accepted and B - E when E are rejected by a
\* BulkWriteError; the batch is not submitted again and the loop goes on with
\* the next batch.
C4_BatchAccounting ==
    /\ last.op = "ok" => total_records = last.before + last.size
    /\ last.op = "BulkWriteError" =>
          total_records = last.before + last.size - last.errors
    /\ last.op \in {"ok", "BulkWriteError"} =>
          /\ pc \in {"for_batch", "for_df"}
          /\ result = "none"
          /\ LET submitted == ops[Len(ops)] IN
             /\ submitted.op = "insert_many"
             /\ Len(submitted.batch) = last.size
             /\ \A q \in DOMAIN js : js[q] > submitted.at[2]
             /\ pc = "for_batch" <=> js /= <<>>
             /\ js /= <<>> => Head(js) = submitted.at[2] + batch_size
    /\ \A p, q \in Calls("insert_many") : ops[p].at = ops[q].at => p = q

C4_Witness ==
    /\ last.op = "BulkWriteError"
    /\ last.errors >= 1
    /\ last.errors < last.size
    /\ pc = "for_batch"

\* C5 as stated: an exception of insert_many other than a BulkWriteError does
\* not abort the run: the total is unchanged and the loop goes on.
C5_OtherErrorContinues ==
    last.op = "OtherError" =>
        /\ total_records = last.before
        /\ pc \in {"for_batch", "for_df"}

\* C5 amended: an exception of insert_many other than a BulkWriteError aborts
\* the run: the total is unchanged, the failing batch is the last one
\* submitted (the batches still to come are not), no index is created, the
\* connection is closed and the run returns False.
C5_OtherErrorAborts ==
    last.op = "OtherError" =>
        /\ total_records = last.before
        /\ pc \in {"finally", "done"}
        /\ result = "False"
        /\ js /= <<>>
        /\ IndexCalls = {}
        /\ LET n == IF pc = "done" THEN Len(ops) - 1 ELSE Len(ops) IN
           /\ ops[n].op = "insert_many"
           /\ ops[n].at = <<i, Head(js)>>
        /\ pc = "done" => ops[Len(ops)].op = "close"

C5_Witness ==
    /\ last.op = "OtherError"
    /\ pc = "done"
    /\ Len(js) >= 2
    /\ i < Len(dataframes)

\* C6 as stated: a run returns False only when the connection failed or no
\* file was discovered.
C6_FailureOnlyConnectOrNoFiles ==
    (pc = "done" /\ result = "False") =>
        \/ collection = "None"
        \/ csv_files = <<>>

\* C6 amended: a run returns False only when the connection failed, when
\* read_csv_files returned no table (no file discovered, or every discovered
\* file failed to parse), or when an exception escaped the loading loop
\* (insert_many raising other than a BulkWriteError, normalisation raising,
\* batch_size = 0); parse errors of some files, handled coercion failures,
\* partial batch rejections and index-creation errors do not.
C6_FailureCauses ==
    /\ (pc = "done" /\ result = "False") =>
          \/ collection = "None"
          \/ dataframes = <<>>
          \/ last.op = "OtherError"
          \/ i >= 1 /\ batch_size = 0
          \/ i >= 1 /\ prepare_data_for_mongodb(dataframes[i]).exc /= "none"
    /\ (pc = "done" /\ Calls("create_indexes") /= {}) => result = "True"

C6_Witness ==
    /\ pc = "done"
    /\ result = "False"
    /\ csv_files /= <<>>
    /\ dataframes = <<>>

\* C7: create_indexes is invoked at most once per run and after the last
\* insert_many: no find or create_index call precedes an insert_many, and a
\* run that returns True invoked create_indexes exactly once.
C7_IndexesOnceAfterInserts ==
    /\ Cardinality(Calls("create_indexes")) <= 1
    /\ \A p \in Calls("insert_many"), q \in IndexCalls : p < q
    /\ \A q \in Calls("find") \cup Calls("create_index") :
          \E c \in Calls("create_indexes") : c < q
    /\ (pc = "done" /\ result = "True") => Cardinality(Calls("create_indexes")) = 1

C7_Witness ==
    /\ pc = "done"
    /\ result = "True"
    /\ Calls("insert_many") /= {}
    /\ Calls("create_index") /= {}

\* C8: for every row and every value of a numeric field,
\* prepare_data_for_mongodb raises nothing and gives one record per row, in
\* which a value that fails the float coercion, or a 'Number of trades' that
\* fails the integer coercion, is null and every other field is kept.
C8_PrepareNeverRaises ==
    pc = "prepared" =>
        /\ result = "returned"
        /\ Len(records) = Len(dataframes[1])
        /\ \A q \in 1..Len(records) :
              LET row == dataframes[1][q] IN
              /\ DOMAIN records[q] = DOMAIN row
              /\ \A f \in DOMAIN row :
                    /\ f \notin numeric_fields => records[q][f] = row[f]
                    /\ (f \in numeric_fields /\ NotNa(row[f])
                        /\ FloatOf(row[f]).exc /= "none") => records[q][f] = PyNone
                    /\ (f = "Number of trades" /\ NotNa(row[f])
                        /\ FloatOf(row[f]).exc = "none"
                        /\ NotNa(FloatOf(row[f]).val)
                        /\ IntOf(FloatOf(row[f]).val).exc /= "none")
                          => records[q][f] = PyNone

\* the listing positions of the .csv files that parse, and the q-th of them
ParsedPositions == {p \in DOMAIN dir : dir[p].suffix = CsvSuffix /\ dir[p].parses}
ParsedAt(q) ==
    CHOOSE p \in ParsedPositions :
        Cardinality({x \in ParsedPositions : x <= p}) = q

\* read_csv_files returned every .csv file that parses, in listing order
ParsedFilesReturned ==
    /\ Len(dataframes) = Cardinality(ParsedPositions)
    /\ \A q \in DOMAIN dataframes :
          /\ Len(dataframes[q]) = Len(dir[ParsedAt(q)].rows)
          /\ \A r \in DOMAIN dataframes[q] :
                /\ dataframes[q][r]["source_file"] = PyStr(FileName(dir, ParsedAt(q)))
                /\ dataframes[q][r]["Open"] = dir[ParsedAt(q)].rows[r]["Open"]

\* C9 as stated: whatever files fail to parse, every file that parses is
\* returned by read_csv_files and all of its records are submitted for
\* insertion (here only for runs with batch_size >= 1 in which every row
\* normalises without an exception).
C9_ParsedFilesFullySubmitted ==
    (/\ pc = "done"
     /\ csv_files /= <<>>
     /\ batch_size >= 1
     /\ \A q \in DOMAIN dataframes :
           prepare_data_for_mongodb(dataframes[q]).exc = "none") =>
        /\ ParsedFilesReturned
        /\ \A q \in DOMAIN dataframes : AllRowsSubmitted(q)

\* C9 amended: whatever files fail to parse, every file that parses is
\* returned by read_csv_files (checked where read_csv_files returns), and in
\* a run with batch_size >= 1 that returns True all of its records are
\* submitted for insertion.
C9_ParsedFilesSubmittedOnSuccess ==
    /\ (pc \in {"for_df", "finally"} /\ i = 0 /\ csv_files /= <<>>) =>
          ParsedFilesReturned
    /\ (pc = "done" /\ result = "True" /\ batch_size >= 1) =>
          \A q \in DOMAIN dataframes : AllRowsSubmitted(q)

C9_Witness ==
    /\ pc = "done"
    /\ result = "True"
    /\ batch_size >= 1
    /\ Len(dir) >= 2
    /\ dir[1].suffix = CsvSuffix /\ ~dir[1].parses
    /\ dir[2].suffix = CsvSuffix /\ dir[2].parses /\ Len(dir[2].rows) >= 2
    /\ AllRowsSubmitted(1)

\* every batch handed to insert_many (checked where the call is made: it is
\* then the latest entry of the log) is a non-empty contiguous slice of at most
\* batch_size of the current records, and after a run that returned True the
\* batches of a dataframe, in call order, are its records
BatchesCoverRecords ==
    /\ (last.op /= "none" /\ pc /= "done") =>
          LET batch == ops[Len(ops)].batch
              from == ops[Len(ops)].at[2]
          IN  /\ ops[Len(ops)].at[1] = i
              /\ 1 <= Len(batch)
              /\ Len(batch) <= batch_size
              /\ from + Len(batch) <= Len(records)
              /\ batch = SubSeq(records, from + 1, from + Len(batch))
              /\ records = prepare_data_for_mongodb(dataframes[i]).records
    /\ (pc = "done" /\ result = "True") =>
          \A q \in DOMAIN dataframes :
              Submitted(q) = prepare_data_for_mongodb(dataframes[q]).records

\* C10: for batch_size >= 1 every batch is a contiguous slice of 1 to
\* batch_size records, and in a run that returns True the batches of a file,
\* in call order, are exactly its records.
C10_BatchesPartitionRecords == batch_size >= 1 => BatchesCoverRecords

C10_Witness ==
    /\ pc = "done"
    /\ result = "True"
    /\ batch_size >= 2
    /\ \E p, q \in Calls("insert_many") :
          /\ ops[p].at[1] = ops[q].at[1]
          /\ p < q
          /\ Len(ops[p].batch) = batch_size
          /\ Len(ops[q].batch) < batch_size

====
